---- MODULE Spec2Model ----
(***************************************************************************)
(* Collection and reconciliation engine of devmind's data_collector app:   *)
(* the Celery jobs run_collect and run_cleanup, the cache lock that guards *)
(* them (task_manager/task_lock.py), the record and config tables they     *)
(* write, and the clock against which the lock entries expire.             *)
(*                                                                         *)
(* Time is in seconds.  A job delivery occupies a worker slot from the     *)
(* moment Celery hands it over until it returns, raises or is killed.      *)
(***************************************************************************)
EXTENDS Integers, Sequences, FiniteSets, TLC

VARIABLES
    now,        \* wall clock (timezone.now(), time.time())
    lock,       \* cache entries of the task lock: lock name -> expiry, 0 = no entry
    config,     \* table data_collector_config: config -> row
    records,    \* table data_collector_raw_data_record: <<config, sid>> -> row
    attachments,\* table data_collector_raw_data_attachment: record key -> rows
    nextUuid,   \* the next attachment uuid that uuid4() hands out
    pc,         \* per worker slot: position inside the wrapper / job body
    job,        \* per worker slot: the delivered task message
    started,    \* per worker slot: time the worker started the task
    loc,        \* per worker slot: local variables of the job body
    result,     \* per worker slot: what the last finished delivery returned
    calls,      \* number of provider.collect calls made so far
    runs,       \* number of deliveries made so far
    ticks,      \* number of clock advances made so far
    lastRun,    \* per config: items and record table of the last committed collect
    sync,       \* the reconciliation of one record's attachments that is under way
    req,        \* per API client: its config update request and where it stands
    accepted,   \* per config: number of update requests that were applied
    kills       \* number of executions killed while their lock entry was cached

vars == <<now, lock, config, records, attachments, nextUuid, pc, job, started, loc, result, calls,
          runs, ticks, lastRun, sync, req, accepted, kills>>

(* What the jobs run_collect and run_cleanup and their lock never touch    *)
apart == <<sync, req, accepted, kills>>

(* The state of the config update endpoint                                 *)
web == <<req, accepted, kills>>

-----------------------------------------------------------------------------
(* Bounds of the model                                                     *)

MaxRuns == 2
MaxTicks == 2
MaxItems == 2
MaxAtts == 2
MaxSyncs == 2
MaxUpdates == 2

(* Program constants                                                       *)

Day == 86400
LockTimeout == 3600
TaskTimeLimit == 3600
InitialRangeDays1m == 30
InitialRangeDays3m == 90
NoLastOkLookbackDays == 30
MinLookbackDays == 1
DefaultRetentionDays == 180

None == 0 - 1
ParseError == 0 - 2
T0 == 200 * Day

Workers == {1, 2}
Configs == {"c1", "c2"}
ConfigIds == Configs \cup {"c0"}
Kinds == {"collect", "cleanup"}
Sids == {"A", "B"}

LockNames == Kinds \X ConfigIds

(* JSON / string values that hold a timestamp: None, an ISO-8601 string, a *)
(* string that is not formatted as a timestamp, or a string formatted as   *)
(* one that names no valid date ("2024-02-30T00:00:00").                   *)
PyNone == [tag |-> "none", t |-> 0]
BadStr == [tag |-> "bad", t |-> 0]
InvalidStr == [tag |-> "invalid", t |-> 0]

IsoFormat(t) == [tag |-> "iso", t |-> t]

(* django.utils.dateparse.parse_datetime: the datetime; None for a string  *)
(* that is not well formatted; ValueError (ParseError here) for a well     *)
(* formatted string that is no valid datetime.                             *)
ParseDatetime(s) ==
    IF s.tag = "iso" THEN s.t
    ELSE IF s.tag = "invalid" THEN ParseError
    ELSE None

Truthy(s) == s.tag # "none"

-----------------------------------------------------------------------------
(* services/providers/__init__.py                                          *)

PROVIDER_MAPPING == {"jira", "feishu"}

(* A registry that answers for every platform                              *)
get_provider_any(platform) == TRUE

get_provider(platform) == platform \in PROVIDER_MAPPING

-----------------------------------------------------------------------------
(* Tables                                                                  *)

_default_runtime_state ==
    [first_collect_at |-> PyNone, last_collect_start_at |-> PyNone,
     last_collect_end_at |-> PyNone, last_success_collect_at |-> PyNone,
     last_validate_at |-> PyNone, last_cleanup_at |-> PyNone]

InitialRanges == {"1m", "3m", "", "2w"}

Platform == [c \in Configs |-> IF c = "c1" THEN "jira" ELSE "gitlab"]

CollectorConfig(c, ir, rt) ==
    [platform |-> Platform[c], key |-> "k0", is_enabled |-> TRUE,
     version |-> 0,
     value |-> [initial_range |-> ir,
                retention_days |-> IF c = "c1" THEN 1 ELSE 0, auth |-> "a0",
                runtime_state |-> rt]]

NoRec == [exists |-> FALSE, raw_data |-> "", filter_metadata |-> "",
          data_hash |-> "", source_created_at |-> None,
          source_updated_at |-> None, first_collected_at |-> None,
          last_collected_at |-> None, is_deleted |-> FALSE]

RecKeys == Configs \X Sids

(* Items a provider's collect may return                                   *)
Item(sid, raw, fm, h, ts) ==
    [source_unique_id |-> sid, raw_data |-> raw, filter_metadata |-> fm,
     data_hash |-> h, source_created_at |-> ts, source_updated_at |-> ts]

(* hashlib.sha256 of the serialised payload: one digest per payload        *)
sha256(payload) == IF payload = "r1" THEN "h1" ELSE "h2"

(* jira.py, _issue_raw_to_item: the item built from the issue key and the   *)
(* payload; project and timestamps are read from the payload, data_hash is  *)
(* the digest of the payload.                                               *)
_issue_raw_to_item(key, raw_data) ==
    Item(key, raw_data, IF raw_data = "r1" THEN "f1" ELSE "f2",
         sha256(raw_data), IF raw_data = "r1" THEN 1 ELSE 2)

(* Two versions of issue A, one of issue B, and an item without an id      *)
Items == {_issue_raw_to_item("A", "r1"), _issue_raw_to_item("A", "r2"),
          _issue_raw_to_item("B", "r1"), Item("", "r1", "f1", "h1", 1)}

RECURSIVE SeqsUpTo(_, _)
SeqsUpTo(S, n) ==
    IF n = 0 THEN {<<>>}
    ELSE LET shorter == SeqsUpTo(S, n - 1)
         IN  shorter \cup {Append(q, x) : q \in shorter, x \in S}

ItemLists == SeqsUpTo(Items, MaxItems)

(* Explicit ranges a manual trigger may carry (start_time, end_time)       *)
Ranges == {<<PyNone, PyNone>>,
           <<IsoFormat(T0 - 5 * Day), IsoFormat(T0 - 2 * Day)>>,
           <<IsoFormat(T0 - 2 * Day), IsoFormat(T0 - 5 * Day)>>,
           <<BadStr, IsoFormat(T0)>>,
           <<IsoFormat(T0 - 5 * Day), InvalidStr>>}

-----------------------------------------------------------------------------
(* task_manager/task_lock.py on top of the Django cache                    *)

(* The cache holds a live entry under the key                              *)
cache_has(n) == lock[n] # 0 /\ now < lock[n]

(* A lock check that never finds the entry                                 *)
is_task_locked_blind(n) == FALSE

(* cache.get(key) is not None                                              *)
is_task_locked(n) == cache_has(n)

(* cache.add(key, "locked", timeout): stores only when no live entry       *)
acquire_task_lock(n, timeout) ==
    [acquired |-> ~cache_has(n),
     lock |-> IF cache_has(n) THEN lock ELSE [lock EXCEPT ![n] = now + timeout]]

(* A release that leaves the entry in the cache                            *)
release_task_lock_kept(n) == lock

(* cache.delete(key): removes the entry whoever stored it                  *)
release_task_lock(n) == [lock EXCEPT ![n] = 0]

_build_task_lock_name(j) == <<j.kind, j.config_uuid>>

-----------------------------------------------------------------------------
(* data_collector/tasks.py, run_collect: the window passed to the provider *)

(* A first-run window that takes "3m" for one month                        *)
first_run_window_short(initial_range, t) ==
    [start_time |-> t - InitialRangeDays1m * Day, end_time |-> t]

first_run_window(initial_range, t) ==
    [start_time |-> IF initial_range = "1m" THEN t - InitialRangeDays1m * Day
                    ELSE IF initial_range = "3m"
                         THEN t - InitialRangeDays3m * Day
                         ELSE t - InitialRangeDays1m * Day,
     end_time |-> t]

(* An incremental window without the minimum lookback                      *)
incremental_window_unclamped(runtime, t) ==
    LET last_ok == runtime.last_success_collect_at
    IN  [start_time |-> IF Truthy(last_ok) THEN ParseDatetime(last_ok)
                        ELSE t - NoLastOkLookbackDays * Day,
         end_time |-> t]

incremental_window(runtime, t) ==
    LET last_ok == runtime.last_success_collect_at
        from_ok == IF Truthy(last_ok) THEN ParseDatetime(last_ok)
                   ELSE t - NoLastOkLookbackDays * Day
        min_start == t - MinLookbackDays * Day
    IN  [start_time |-> IF from_ok > min_start THEN min_start ELSE from_ok,
         end_time |-> t]

(* error is "" when a window was determined, "ValueError" when            *)
(* parse_datetime raised                                                   *)
determine_window(start_time, end_time, value, t) ==
    LET runtime == value.runtime_state
        initial_range == IF value.initial_range = "" THEN "1m"
                         ELSE value.initial_range
        start_dt == ParseDatetime(start_time)
        end_dt == ParseDatetime(end_time)
    IN  IF Truthy(start_time) /\ Truthy(end_time)
        THEN IF start_dt = ParseError \/ end_dt = ParseError
             THEN [error |-> "ValueError",
                   start_time |-> None, end_time |-> None]
             ELSE IF start_dt = None \/ end_dt = None
             THEN [error |-> "Invalid start_time or end_time format.",
                   start_time |-> None, end_time |-> None]
             ELSE IF start_dt >= end_dt
                  THEN [error |-> "start_time must be before end_time.",
                        start_time |-> None, end_time |-> None]
                  ELSE [error |-> "", start_time |-> start_dt,
                        end_time |-> end_dt]
        ELSE IF runtime.first_collect_at = PyNone
             THEN [error |-> ""] @@ first_run_window(initial_range, t)
             ELSE [error |-> ""] @@ incremental_window(runtime, t)

-----------------------------------------------------------------------------
(* run_collect: the persist pass over the fetched items                    *)

NoCounts == [records_created |-> 0, records_updated |-> 0,
             records_skipped_no_sid |-> 0, records_skipped_unchanged |-> 0]

(* Lines 398-406: the row get_or_create inserts                            *)
new_record(item, t) ==
    [exists |-> TRUE,
     raw_data |-> item.raw_data,
     filter_metadata |-> item.filter_metadata,
     data_hash |-> item.data_hash,
     source_created_at |-> item.source_created_at,
     source_updated_at |-> item.source_updated_at,
     first_collected_at |-> t,
     last_collected_at |-> t,
     is_deleted |-> FALSE]

(* A comparison that reports every sighting as a change                    *)
hash_differs_always(rec, item) == TRUE

(* Line 412                                                                *)
hash_differs(rec, item) == rec.data_hash # item.data_hash

(* An update that also writes the model default of is_deleted              *)
update_record_revived(rec, item, t) ==
    [rec EXCEPT !.raw_data = item.raw_data,
                !.filter_metadata = item.filter_metadata,
                !.data_hash = item.data_hash,
                !.source_created_at = item.source_created_at,
                !.source_updated_at = item.source_updated_at,
                !.last_collected_at = t,
                !.is_deleted = FALSE]

(* An update that stores the new hash and keeps the old payload            *)
update_record_hash_only(rec, item, t) ==
    [rec EXCEPT !.data_hash = item.data_hash, !.last_collected_at = t]

(* Lines 413-427, then 432-435                                             *)
update_record(rec, item, t) ==
    [rec EXCEPT !.raw_data = item.raw_data,
                !.filter_metadata = item.filter_metadata,
                !.data_hash = item.data_hash,
                !.source_created_at = item.source_created_at,
                !.source_updated_at = item.source_updated_at,
                !.last_collected_at = t]

(* An unchanged sighting that leaves the row alone                         *)
touch_record_never(rec, t) == rec

(* Lines 432-435 alone: the sighting of an unchanged item                  *)
touch_record(rec, t) == [rec EXCEPT !.last_collected_at = t]

(* One iteration of the loop over items; acc holds the record table, the   *)
(* counters and persisted_records (the in-memory rows, in order).          *)
persist_item(acc, c, item, t) ==
    LET sid == item.source_unique_id
        k == <<c, sid>>
        rec == acc.db[k]
        seen == [sid |-> sid, raw_data |-> item.raw_data]
    IN  IF sid = ""
        THEN [acc EXCEPT !.n.records_skipped_no_sid = @ + 1]
        ELSE IF ~rec.exists
        THEN [acc EXCEPT !.db[k] = new_record(item, t),
                         !.n.records_created = @ + 1,
                         !.persisted = Append(@, seen)]
        ELSE IF hash_differs(rec, item)
        THEN [acc EXCEPT !.db[k] = update_record(rec, item, t),
                         !.n.records_updated = @ + 1,
                         !.persisted = Append(@, seen)]
        ELSE [acc EXCEPT !.db[k] = touch_record(rec, t),
                         !.n.records_skipped_unchanged = @ + 1]

RECURSIVE persist_items(_, _, _, _)
persist_items(db, c, items, t) ==
    IF items = <<>>
    THEN [db |-> db, n |-> NoCounts, persisted |-> <<>>]
    ELSE persist_item(persist_items(db, c, SubSeq(items, 1, Len(items) - 1), t),
                      c, items[Len(items)], t)

(* Lines 437-442: the runtime_state written at the end of the pass         *)
commit_runtime_state(runtime, t) ==
    [runtime EXCEPT
       !.last_collect_start_at = IsoFormat(t),
       !.last_collect_end_at = IsoFormat(t),
       !.last_success_collect_at = IsoFormat(t),
       !.first_collect_at = IF @ = PyNone THEN IsoFormat(t) ELSE @]

(* A block that is no transaction: what was written stays                  *)
atomic_rollback_none(before, partial) == partial

(* transaction.atomic(): a block that fails leaves the tables as they were *)
(* before it; partial is what the block had written when it failed.        *)
atomic_rollback(before, partial) == before

-----------------------------------------------------------------------------
(* _sync_attachments_for_record                                            *)

NoneId == "none"

(* JiraProvider.fetch_attachments: the source_file_ids listed in raw_data  *)
fetch_attachments(raw_data) == IF raw_data = "r2" THEN <<"f1">> ELSE <<>>

(* Lines 55-60                                                             *)
current_source_ids(att_list) ==
    {att_list[i] : i \in {j \in 1..Len(att_list) : att_list[j] # NoneId}}

(* Lines 62-140 for the i-th reported attachment; ok holds the positions   *)
(* whose content was downloaded and written.                               *)
sync_one(acc, att_list, i, ok) ==
    LET source_file_id == att_list[i]
        keyed == source_file_id # NoneId /\ source_file_id # ""
        existing == {r \in acc.rows : keyed /\ r.source_file_id = source_file_id}
    IN  IF i \notin ok THEN acc
        ELSE IF existing # {}
        THEN [acc EXCEPT !.synced = @ + 1]
        ELSE [acc EXCEPT
                !.rows = @ \cup {[source_file_id |-> IF keyed THEN source_file_id
                                                     ELSE NoneId,
                                  uuid |-> acc.next]},
                !.next = @ + 1,
                !.synced = @ + 1]

RECURSIVE sync_loop(_, _, _, _)
sync_loop(acc, att_list, n, ok) ==
    IF n = 0 THEN acc
    ELSE sync_one(sync_loop(acc, att_list, n - 1, ok), att_list, n, ok)

(* A reconciliation that never removes a row                               *)
to_remove_nothing(rows, att_list) == {}

(* Lines 142-150                                                           *)
to_remove(rows, att_list) ==
    IF current_source_ids(att_list) # {}
    THEN {r \in rows : /\ r.source_file_id \notin current_source_ids(att_list)
                       /\ r.source_file_id # NoneId
                       /\ r.source_file_id # ""}
    ELSE rows

_sync_attachments_for_record(rows, next, att_list, ok) ==
    LET done == sync_loop([rows |-> rows, next |-> next, synced |-> 0],
                          att_list, Len(att_list), ok)
        gone == to_remove(done.rows, att_list)
    IN  [rows |-> done.rows \ gone, next |-> done.next,
         synced |-> done.synced, removed |-> Cardinality(gone)]

(* Lines 448-451: the records persisted by the run, in order; each is      *)
(* reconciled against the raw_data of the item that touched it.            *)
RECURSIVE sync_persisted(_, _, _, _, _)
sync_persisted(atts, next, c, persisted, ok) ==
    IF persisted = <<>> THEN [atts |-> atts, next |-> next]
    ELSE LET before == sync_persisted(atts, next, c,
                                      SubSeq(persisted, 1, Len(persisted) - 1), ok)
             rec == persisted[Len(persisted)]
             k == <<c, rec.sid>>
             out == _sync_attachments_for_record(
                        before.atts[k], before.next,
                        fetch_attachments(rec.raw_data), ok)
         IN  [atts |-> [before.atts EXCEPT ![k] = out.rows], next |-> out.next]

(* Lines 475 and 479: raw_data lists attachments, and more of them than    *)
(* rows are stored                                                         *)
needs_backfill(rows, raw_attachments) ==
    Len(raw_attachments) # 0 /\ Cardinality(rows) < Len(raw_attachments)

(* Lines 453-480: records whose raw_data lists more attachments than rows  *)
(* are stored, those persisted in this run excepted.                       *)
backfill_records(db, atts, c, persisted) ==
    {k \in RecKeys :
        /\ k[1] = c
        /\ db[k].exists
        /\ k[2] \notin {persisted[i].sid : i \in 1..Len(persisted)}
        /\ needs_backfill(atts[k], fetch_attachments(db[k].raw_data))}

RECURSIVE sync_backfill(_, _, _, _, _)
sync_backfill(atts, next, db, todo, ok) ==
    IF todo = {} THEN [atts |-> atts, next |-> next]
    ELSE LET k == CHOOSE x \in todo : TRUE
             out == _sync_attachments_for_record(
                        atts[k], next, fetch_attachments(db[k].raw_data), ok)
         IN  sync_backfill([atts EXCEPT ![k] = out.rows], out.next, db,
                           todo \ {k}, ok)

-----------------------------------------------------------------------------
(* State                                                                   *)

(* The row get_object has not loaded yet                                   *)
NoInstance == CollectorConfig("c2", "", _default_runtime_state)

(* Bodies of update requests: key, is_enabled and value as sent; a client  *)
(* may send a runtime_state of its own inside value.                       *)
NoData == [key |-> "", is_enabled |-> FALSE,
           value |-> [initial_range |-> "", retention_days |-> 0,
                      auth |-> ""]]

UpdateBodies ==
    {[key |-> "k1", is_enabled |-> FALSE,
      value |-> [initial_range |-> "3m", retention_days |-> 2, auth |-> "a1"]],
     [key |-> "k0", is_enabled |-> TRUE,
      value |-> [initial_range |-> "1m", retention_days |-> 1, auth |-> "a0",
                 runtime_state |-> _default_runtime_state]]}

(* version as sent: absent (None) or a number                              *)
VersionsSent == {None} \cup (0..MaxUpdates)

NoJob == [kind |-> "", config_uuid |-> "", start_time |-> PyNone,
          end_time |-> PyNone]

NoLoc == [now |-> None, value |-> CollectorConfig("c2", "", _default_runtime_state).value,
          start_time |-> None, end_time |-> None, items |-> <<>>,
          persisted |-> <<>>, n |-> NoCounts, cutoff |-> None,
          asked |-> {}, missing |-> {}, failed |-> FALSE]

(* What a delivery returned, with the now of its body and, for a persist   *)
(* pass that raised, the number of items it had gone through.              *)
NoResult == [status |-> "", success |-> FALSE, error |-> "",
             records_created |-> 0, records_updated |-> 0,
             records_deleted |-> 0, now |-> None, failed_at |-> None,
             records_validated |-> 0, records_marked_deleted |-> 0]

Skipped(reason) == [NoResult EXCEPT !.status = "skipped", !.error = reason]
Failed(err) == [NoResult EXCEPT !.status = "returned", !.error = err]
Raised(err) == [NoResult EXCEPT !.status = "raised", !.error = err]
Killed == [NoResult EXCEPT !.status = "killed"]

(* The last committed persist pass of a config: its items, the record     *)
(* table it left, and whether it repeated the pass before it (same items,  *)
(* on the table that pass had left).                                       *)
NoLastRun == [valid |-> FALSE, items |-> <<>>,
              db |-> [k \in RecKeys |-> NoRec], repeated |-> FALSE]

(* API clients that update configs                                         *)
Clients == {1, 2}

(* No request under way; n counts the requests the client has made         *)
NoReq == [phase |-> "idle", config_uuid |-> "", instance |-> NoInstance,
          version_sent |-> None, data |-> NoData, status |-> "", n |-> 0]

(* The record whose attachments are reconciled on their own                *)
SyncKey == <<"c1", "A">>

(* No reconciliation has been called yet                                   *)
NoSync == [phase |-> "idle", att_list |-> <<>>, ok |-> {}, before |-> {},
           synced |-> 0, removed |-> 0, passes |-> 0]

(* source_file_id values a provider reports: ids, the empty string, None   *)
AttIds == {"f1", "f2", "f3", "", NoneId}

AttLists == SeqsUpTo(AttIds, MaxAtts)

(* Attachment rows a record may hold when a reconciliation starts          *)
StoredRows == {[source_file_id |-> "f1", uuid |-> 1],
               [source_file_id |-> "f3", uuid |-> 2],
               [source_file_id |-> NoneId, uuid |-> 3]}

(* A config made through the API may carry a runtime_state of its own:     *)
(* validate_value fills in the keys that are missing.                      *)
SeededRuntime ==
    [_default_runtime_state EXCEPT !.first_collect_at = IsoFormat(T0 - 3 * Day)]

InitConfigs ==
    {CollectorConfig("c1", ir, _default_runtime_state) : ir \in InitialRanges}
      \cup {CollectorConfig("c1", "1m", SeededRuntime)}

Init ==
    /\ now = T0
    /\ lock = [n \in LockNames |-> 0]
    /\ \E c1 \in InitConfigs :
         config = [c \in Configs |->
                     IF c = "c1" THEN c1
                     ELSE CollectorConfig(c, "1m", _default_runtime_state)]
    /\ records = [k \in RecKeys |-> NoRec]
    /\ attachments = [k \in RecKeys |-> {}]
    /\ nextUuid = 1
    /\ pc = [w \in Workers |-> "idle"]
    /\ job = [w \in Workers |-> NoJob]
    /\ started = [w \in Workers |-> None]
    /\ loc = [w \in Workers |-> NoLoc]
    /\ result = [w \in Workers |-> NoResult]
    /\ calls = 0
    /\ runs = 0
    /\ ticks = 0
    /\ lastRun = [c \in Configs |-> NoLastRun]
    /\ sync = NoSync
    /\ req = [cl \in Clients |-> NoReq]
    /\ accepted = [c \in Configs |-> 0]
    /\ kills = 0

BodyPcs == {"load", "fetch", "persist", "sync", "cl_load", "cl_txn"}

Live(w) == pc[w] # "idle"

InBody(w) == pc[w] \in BodyPcs

(* The wrapper or body of w ends: the slot becomes free                    *)
Finish(w, res) ==
    /\ pc' = [pc EXCEPT ![w] = "idle"]
    /\ result' = [result EXCEPT ![w] = res]
    /\ loc' = [loc EXCEPT ![w] = NoLoc]
    /\ started' = [started EXCEPT ![w] = None]

(* The body of w ends with res; the wrapper's finally clause is next       *)
EndBody(w, res) ==
    /\ pc' = [pc EXCEPT ![w] = "finally"]
    /\ result' = [result EXCEPT ![w] = res]
    /\ loc' = [loc EXCEPT ![w] = NoLoc]
    /\ UNCHANGED started

-----------------------------------------------------------------------------
(* The job runner and the clock                                            *)

TickSteps == {LockTimeout, 2 * Day}

(* Time passes.  A task that has run for TaskTimeLimit is killed before    *)
(* more time passes (CELERY_TASK_TIME_LIMIT).  Expired cache entries go.   *)
Tick(d) ==
    /\ ticks < MaxTicks
    /\ \A w \in Workers : Live(w) => now + d - started[w] <= TaskTimeLimit
    /\ now' = now + d
    /\ ticks' = ticks + 1
    /\ lock' = [n \in LockNames |-> IF lock[n] <= now + d THEN 0 ELSE lock[n]]
    /\ UNCHANGED <<config, records, attachments, nextUuid, pc, job, started, loc, result, calls,
                   runs, lastRun, apart>>

(* The worker child running the task is killed at the hard time limit:     *)
(* nothing of the task runs any more, its finally clause included.         *)
HardTimeout(w) ==
    /\ Live(w)
    /\ now - started[w] >= TaskTimeLimit
    /\ Finish(w, Killed)
    /\ kills' = IF pc[w] \in BodyPcs \cup {"finally"}
                     /\ lock[_build_task_lock_name(job[w])] # 0
                  THEN kills + 1 ELSE kills
    /\ UNCHANGED <<now, lock, config, records, attachments, nextUuid, job, calls, runs, ticks,
                   lastRun, sync, req, accepted>>

(* At-least-once delivery of a task message to a free worker slot          *)
Deliver(w, kind, c, rng) ==
    /\ pc[w] = "idle"
    /\ runs < MaxRuns
    /\ kind = "cleanup" => rng = <<PyNone, PyNone>>
    /\ runs' = runs + 1
    /\ job' = [job EXCEPT ![w] = [kind |-> kind, config_uuid |-> c,
                                  start_time |-> rng[1], end_time |-> rng[2]]]
    /\ pc' = [pc EXCEPT ![w] = "check"]
    /\ started' = [started EXCEPT ![w] = now]
    /\ result' = [result EXCEPT ![w] = NoResult]
    /\ UNCHANGED <<now, lock, config, records, attachments, nextUuid, loc, calls, ticks, lastRun, apart>>

-----------------------------------------------------------------------------
(* prevent_duplicate_task.wrapper                                          *)

(* Lines 212-221                                                           *)
CheckLock(w) ==
    /\ pc[w] = "check"
    /\ IF is_task_locked(_build_task_lock_name(job[w]))
       THEN Finish(w, Skipped("task_already_running"))
       ELSE /\ pc' = [pc EXCEPT ![w] = "acquire"]
            /\ UNCHANGED <<result, loc, started>>
    /\ UNCHANGED <<now, lock, config, records, attachments, nextUuid, job, calls, runs, ticks,
                   lastRun, apart>>

(* Lines 223-232                                                           *)
AcquireLock(w) ==
    /\ pc[w] = "acquire"
    /\ LET got == acquire_task_lock(_build_task_lock_name(job[w]), LockTimeout)
       IN  /\ lock' = got.lock
           /\ IF ~got.acquired
              THEN Finish(w, Skipped("lock_acquisition_failed"))
              ELSE /\ pc' = [pc EXCEPT ![w] =
                               IF job[w].kind = "collect" THEN "load"
                               ELSE "cl_load"]
                   /\ UNCHANGED <<result, loc, started>>
    /\ UNCHANGED <<now, config, records, attachments, nextUuid, job, calls, runs, ticks, lastRun, apart>>

(* Lines 234-239: the finally clause, then the wrapper returns or re-raises *)
ReleaseLock(w) ==
    /\ pc[w] = "finally"
    /\ lock' = release_task_lock(_build_task_lock_name(job[w]))
    /\ Finish(w, result[w])
    /\ UNCHANGED <<now, config, records, attachments, nextUuid, job, calls, runs, ticks, lastRun, apart>>

-----------------------------------------------------------------------------
(* run_collect                                                             *)

(* Lines 216-319: load the config, take now, determine the window          *)
CollectLoad(w) ==
    /\ pc[w] = "load"
    /\ LET c == job[w].config_uuid
       IN  IF c \notin Configs
           THEN EndBody(w, Failed("Config not found"))
           ELSE LET value == config[c].value
                    win == determine_window(job[w].start_time,
                                            job[w].end_time, value, now)
                IN  IF win.error = "ValueError"
                    THEN EndBody(w, Raised(win.error))
                    ELSE IF win.error # ""
                    THEN EndBody(w, Failed(win.error))
                    ELSE /\ loc' = [loc EXCEPT ![w] =
                                      [NoLoc EXCEPT !.now = now,
                                                    !.value = value,
                                                    !.start_time = win.start_time,
                                                    !.end_time = win.end_time]]
                         /\ pc' = [pc EXCEPT ![w] = "fetch"]
                         /\ UNCHANGED <<result, started>>
    /\ UNCHANGED <<now, lock, config, records, attachments, nextUuid, job, calls, runs, ticks,
                   lastRun, apart>>

(* Lines 335-340, 504-542: no provider registered for the platform         *)
CollectNoProvider(w) ==
    /\ pc[w] = "fetch"
    /\ ~get_provider(config[job[w].config_uuid].platform)
    /\ EndBody(w, [NoResult EXCEPT !.status = "returned", !.success = TRUE,
                                   !.now = loc[w].now])
    /\ UNCHANGED <<now, lock, config, records, attachments, nextUuid, job, calls, runs, ticks,
                   lastRun, apart>>

(* Lines 347-356: provider.collect returns a list of items                 *)
CollectFetch(w, items) ==
    /\ pc[w] = "fetch"
    /\ get_provider(config[job[w].config_uuid].platform)
    /\ calls' = calls + 1
    /\ loc' = [loc EXCEPT ![w].items = items]
    /\ pc' = [pc EXCEPT ![w] = "persist"]
    /\ UNCHANGED <<now, lock, config, records, attachments, nextUuid, job, started, result, runs,
                   ticks, lastRun, apart>>

(* An error handler that stamps the run into runtime_state before raising  *)
CollectFetchRaiseStamped(w) ==
    /\ pc[w] = "fetch"
    /\ get_provider(config[job[w].config_uuid].platform)
    /\ calls' = calls + 1
    /\ config' = [config EXCEPT
                    ![job[w].config_uuid].value.runtime_state.last_collect_end_at =
                        IsoFormat(loc[w].now)]
    /\ EndBody(w, [Raised("provider.collect") EXCEPT !.now = loc[w].now])
    /\ UNCHANGED <<now, lock, records, attachments, nextUuid, job, runs, ticks,
                   lastRun, apart>>

(* Lines 357-368: provider.collect raises; the exception is re-raised      *)
CollectFetchRaise(w) ==
    /\ pc[w] = "fetch"
    /\ get_provider(config[job[w].config_uuid].platform)
    /\ calls' = calls + 1
    /\ EndBody(w, [Raised("provider.collect") EXCEPT !.now = loc[w].now])
    /\ UNCHANGED <<now, lock, config, records, attachments, nextUuid, job, runs, ticks, lastRun, apart>>

(* Lines 381-444: the transaction over the items and the runtime_state     *)
CollectPersist(w) ==
    /\ pc[w] = "persist"
    /\ LET c == job[w].config_uuid
           out == persist_items(records, c, loc[w].items, loc[w].now)
           runtime == commit_runtime_state(loc[w].value.runtime_state,
                                           loc[w].now)
       IN  /\ records' = out.db
           /\ config' = [config EXCEPT ![c].value =
                           [loc[w].value EXCEPT !.runtime_state = runtime]]
           /\ loc' = [loc EXCEPT ![w].persisted = out.persisted,
                                 ![w].n = out.n]
           /\ lastRun' = [lastRun EXCEPT ![c] =
                            [valid |-> TRUE, items |-> loc[w].items,
                             db |-> out.db,
                             repeated |-> /\ lastRun[c].valid
                                          /\ lastRun[c].items = loc[w].items
                                          /\ lastRun[c].db = records]]
    /\ pc' = [pc EXCEPT ![w] = "sync"]
    /\ UNCHANGED <<now, lock, attachments, nextUuid, job, started, result,
                   calls, runs, ticks, apart>>

(* The transaction fails after k items (k = Len: at config.save)           *)
CollectPersistFail(w, k) ==
    /\ pc[w] = "persist"
    /\ k \in 0..Len(loc[w].items)
    /\ LET c == job[w].config_uuid
           part == persist_items(records, c, SubSeq(loc[w].items, 1, k),
                                 loc[w].now)
       IN  records' = atomic_rollback(records, part.db)
    /\ EndBody(w, [Raised("database") EXCEPT !.now = loc[w].now,
                                             !.failed_at = k])
    /\ UNCHANGED <<now, lock, config, attachments, nextUuid, job, calls,
                   runs, ticks, lastRun, apart>>

(* Lines 446-542: the attachment passes, then the success result; ok holds *)
(* the list positions whose download and file write succeed.               *)
CollectSync(w, ok) ==
    /\ pc[w] = "sync"
    /\ LET c == job[w].config_uuid
           first == sync_persisted(attachments, nextUuid, c,
                                   loc[w].persisted, ok)
           todo == backfill_records(records, first.atts, c, loc[w].persisted)
           second == sync_backfill(first.atts, first.next, records, todo, ok)
       IN  /\ attachments' = second.atts
           /\ nextUuid' = second.next
    /\ EndBody(w, [NoResult EXCEPT
                      !.status = "returned", !.success = TRUE,
                      !.records_created = loc[w].n.records_created,
                      !.records_updated = loc[w].n.records_updated,
                      !.now = loc[w].now])
    /\ UNCHANGED <<now, lock, config, records, job, calls, runs, ticks,
                   lastRun, apart>>

(* Lines 446-486, a call that is not guarded raises (os.makedirs in        *)
(* ensure_attachment_dir, line 86, or a query): the first j - 1 persisted  *)
(* records are reconciled, then the first downloaded attachment of record  *)
(* j, or of the first backfill record when j is past the list, raises      *)
(* before its row is written.  The exception leaves run_collect.           *)
CollectSyncRaise(w, ok, j) ==
    /\ pc[w] = "sync"
    /\ 1 \in ok
    /\ j \in 1..(Len(loc[w].persisted) + 1)
    /\ LET c == job[w].config_uuid
           first == sync_persisted(attachments, nextUuid, c,
                                   SubSeq(loc[w].persisted, 1, j - 1), ok)
           todo == backfill_records(records, first.atts, c, loc[w].persisted)
       IN  /\ IF j <= Len(loc[w].persisted)
              THEN fetch_attachments(loc[w].persisted[j].raw_data) # <<>>
              ELSE todo # {}
           /\ attachments' = first.atts
           /\ nextUuid' = first.next
    /\ EndBody(w, [Raised("attachments") EXCEPT !.now = loc[w].now])
    /\ UNCHANGED <<now, lock, config, records, job, calls, runs, ticks,
                   lastRun, apart>>

-----------------------------------------------------------------------------
(* run_cleanup                                                             *)

(* Lines 577-592                                                           *)
CleanupLoad(w) ==
    /\ pc[w] = "cl_load"
    /\ LET c == job[w].config_uuid
       IN  IF c \notin Configs
           THEN EndBody(w, Failed("Config not found"))
           ELSE LET value == config[c].value
                    retention_days == IF value.retention_days = None
                                         \/ value.retention_days = 0
                                      THEN DefaultRetentionDays
                                      ELSE value.retention_days
                IN  /\ loc' = [loc EXCEPT ![w] =
                                 [NoLoc EXCEPT !.now = now,
                                               !.value = value,
                                               !.cutoff = now - retention_days * Day]]
                    /\ pc' = [pc EXCEPT ![w] = "cl_txn"]
                    /\ UNCHANGED <<result, started>>
    /\ UNCHANGED <<now, lock, config, records, attachments, nextUuid, job, calls, runs, ticks,
                   lastRun, apart>>

(* Lines 594-630                                                           *)
CleanupTxn(w) ==
    /\ pc[w] = "cl_txn"
    /\ LET c == job[w].config_uuid
           to_delete == {k \in RecKeys : /\ k[1] = c
                                         /\ records[k].exists
                                         /\ records[k].last_collected_at # None
                                         /\ records[k].last_collected_at < loc[w].cutoff}
       IN  /\ records' = [k \in RecKeys |->
                            IF k \in to_delete THEN NoRec ELSE records[k]]
           /\ attachments' = [k \in RecKeys |->
                                IF k \in to_delete THEN {} ELSE attachments[k]]
           /\ config' = [config EXCEPT ![c].value =
                           [loc[w].value EXCEPT
                              !.runtime_state.last_cleanup_at = IsoFormat(now)]]
           /\ EndBody(w, [NoResult EXCEPT !.status = "returned",
                                          !.success = TRUE,
                                          !.records_deleted = Cardinality(to_delete)])
    /\ UNCHANGED <<now, lock, nextUuid, job, calls, runs, ticks, lastRun, apart>>

-----------------------------------------------------------------------------
(* Download outcomes: the positions of a reported list that succeed        *)
Downloads == {{}, {1}}

(* The steps of the workers in W when deliveries carry a kind of Ks, a     *)
(* config of Cs and a range of Rs and the provider returns a list of Ls.   *)
Steps(W, Ks, Cs, Rs, Ls, Ds) ==
    \/ \E d \in TickSteps : Tick(d)
    \/ \E w \in W : HardTimeout(w)
    \/ \E w \in W, kind \in Ks, c \in Cs, rng \in Rs : Deliver(w, kind, c, rng)
    \/ \E w \in W : CheckLock(w)
    \/ \E w \in W : AcquireLock(w)
    \/ \E w \in W : ReleaseLock(w)
    \/ \E w \in W : CollectLoad(w)
    \/ \E w \in W : CollectNoProvider(w)
    \/ \E w \in W, items \in Ls : CollectFetch(w, items)
    \/ \E w \in W : CollectFetchRaise(w)
    \/ \E w \in W : CollectPersist(w)
    \/ \E w \in W, k \in 0..MaxItems : CollectPersistFail(w, k)
    \/ \E w \in W, ok \in Ds : CollectSync(w, ok)
    \/ \E w \in W, ok \in Ds, j \in 1..(MaxItems + 1) : CollectSyncRaise(w, ok, j)
    \/ \E w \in W : CleanupLoad(w)
    \/ \E w \in W : CleanupTxn(w)

(* One worker slot: the jobs of all configs run one after another          *)
Next == Steps({1}, Kinds, ConfigIds, Ranges, ItemLists, Downloads)

Spec == Init /\ [][Next]_vars

(* Two worker slots: deliveries for one config overlap                     *)
NextLock ==
    Steps(Workers, Kinds, Configs, {<<PyNone, PyNone>>},
          {<<>>, <<Item("A", "r2", "f2", "h2", 2)>>}, {{1}})

SpecLock == Init /\ [][NextLock]_vars

-----------------------------------------------------------------------------
(* run_cleanup on its own: stored records of several ages, any configured  *)
(* retention_days                                                          *)

(* value.retention_days as configured: absent (None), 0 or more days       *)
RetentionDays == {None, 0, 1, 2}

(* last_collected_at of the records stored when the cleanup jobs start     *)
StoredAges == {None, T0 - 3 * Day, T0 - Day, T0}

StoredRecord(t) ==
    [new_record(Item("A", "r1", "f1", "h1", 1), T0 - 3 * Day)
       EXCEPT !.last_collected_at = t]

InitCleanup ==
    /\ now = T0
    /\ lock = [n \in LockNames |-> 0]
    /\ \E rd \in RetentionDays :
          config = [c \in Configs |->
                      [CollectorConfig(c, "1m", _default_runtime_state)
                         EXCEPT !.value.retention_days = rd]]
    /\ \E a \in StoredAges, b \in StoredAges \cup {None - 1} :
          records = [k \in RecKeys |->
                       IF k = <<"c1", "A">> THEN StoredRecord(a)
                       ELSE IF k = <<"c1", "B">> /\ b # None - 1
                       THEN StoredRecord(b)
                       ELSE IF k = <<"c2", "A">>
                       THEN StoredRecord(T0 - 3 * Day)
                       ELSE NoRec]
    /\ attachments = [k \in RecKeys |->
                        IF k = <<"c1", "A">>
                        THEN {[source_file_id |-> "f1", uuid |-> 1]} ELSE {}]
    /\ nextUuid = 2
    /\ pc = [w \in Workers |-> "idle"]
    /\ job = [w \in Workers |-> NoJob]
    /\ started = [w \in Workers |-> None]
    /\ loc = [w \in Workers |-> NoLoc]
    /\ result = [w \in Workers |-> NoResult]
    /\ calls = 0
    /\ runs = 0
    /\ ticks = 0
    /\ lastRun = [c \in Configs |-> NoLastRun]
    /\ sync = NoSync
    /\ req = [cl \in Clients |-> NoReq]
    /\ accepted = [c \in Configs |-> 0]
    /\ kills = 0

NextCleanup ==
    \/ \E d \in TickSteps : Tick(d)
    \/ HardTimeout(1)
    \/ \E c \in ConfigIds : Deliver(1, "cleanup", c, <<PyNone, PyNone>>)
    \/ CheckLock(1)
    \/ AcquireLock(1)
    \/ ReleaseLock(1)
    \/ CleanupLoad(1)
    \/ CleanupTxn(1)

SpecCleanup == InitCleanup /\ [][NextCleanup]_vars

-----------------------------------------------------------------------------
(* run_validate, which carries no prevent_duplicate_task decorator, and    *)
(* JiraProvider.validate                                                   *)

ValidatePcs == {"v_load", "v_provider", "v_mark"}

(* What the platform answers to the existence check of one id              *)
Answers == {"found", "not_found", "error"}

(* jira.py lines 222-234: an empty list of ids needs no call; a client     *)
(* that cannot be built gives []; otherwise every id whose jira.issue call *)
(* raised, for whatever reason, is reported missing.                       *)
JiraValidate(source_unique_ids, client_ok, answer) ==
    IF source_unique_ids = {} THEN {}
    ELSE IF ~client_ok THEN {}
    ELSE {sid \in source_unique_ids : answer[sid] # "found"}

(* A call to the platform failed in the course of JiraValidate: the client *)
(* could not be built, or a jira.issue call ended in a transport or auth   *)
(* error rather than in "not found".                                       *)
platform_call_failed(source_unique_ids, client_ok, answer) ==
    /\ source_unique_ids # {}
    /\ \/ ~client_ok
       \/ \E sid \in source_unique_ids : answer[sid] = "error"

(* Lines 665-682: the ids of the config's records in [st, et] that are not *)
(* tombstoned                                                              *)
records_in_range(db, c, st, et) ==
    {k[2] : k \in {x \in RecKeys : /\ x[1] = c
                                    /\ db[x].exists
                                    /\ ~db[x].is_deleted
                                    /\ db[x].last_collected_at # None
                                    /\ db[x].last_collected_at >= st
                                    /\ db[x].last_collected_at <= et}}

(* An update that leaves out the filter on the config's platform           *)
mark_deleted_any_platform(db, c, missing) ==
    [k \in RecKeys |->
        IF db[k].exists /\ k[2] \in missing
        THEN [db[k] EXCEPT !.is_deleted = TRUE]
        ELSE db[k]]

(* Lines 699-704: the update of is_deleted over the ids reported missing   *)
mark_deleted(db, c, missing) ==
    [k \in RecKeys |->
        IF k[1] = c /\ db[k].exists /\ k[2] \in missing
        THEN [db[k] EXCEPT !.is_deleted = TRUE]
        ELSE db[k]]

(* The validate endpoint queues the task (views/config.py); the task       *)
(* starts on a free worker slot without any lock.                          *)
DeliverValidate(w, c, rng) ==
    /\ pc[w] = "idle"
    /\ runs < MaxRuns
    /\ Truthy(rng[1]) /\ Truthy(rng[2])
    /\ runs' = runs + 1
    /\ job' = [job EXCEPT ![w] = [kind |-> "validate", config_uuid |-> c,
                                  start_time |-> rng[1], end_time |-> rng[2]]]
    /\ pc' = [pc EXCEPT ![w] = "v_load"]
    /\ started' = [started EXCEPT ![w] = now]
    /\ result' = [result EXCEPT ![w] = NoResult]
    /\ UNCHANGED <<now, lock, config, records, attachments, nextUuid, loc,
                   calls, ticks, lastRun, apart>>

(* Lines 651-685: load the config, parse the range, read the ids; a range  *)
(* that does not parse makes the query raise (None as a query value).      *)
ValidateLoad(w) ==
    /\ pc[w] = "v_load"
    /\ LET c == job[w].config_uuid
           st == ParseDatetime(job[w].start_time)
           et == ParseDatetime(job[w].end_time)
       IN  IF c \notin Configs
           THEN Finish(w, Failed("Config not found"))
           ELSE IF st \in {None, ParseError} \/ et \in {None, ParseError}
           THEN Finish(w, Raised("ValueError"))
           ELSE /\ loc' = [loc EXCEPT ![w] =
                             [NoLoc EXCEPT !.start_time = st,
                                           !.end_time = et,
                                           !.value = config[c].value,
                                           !.asked = records_in_range(
                                                         records, c, st, et)]]
                /\ pc' = [pc EXCEPT ![w] =
                            IF get_provider(config[c].platform)
                            THEN "v_provider" ELSE "v_mark"]
                /\ UNCHANGED <<result, started>>
    /\ UNCHANGED <<now, lock, config, records, attachments, nextUuid, job,
                   calls, runs, ticks, lastRun, apart>>

(* Lines 686-697: provider.validate                                        *)
ValidateProvider(w, client_ok, answer) ==
    /\ pc[w] = "v_provider"
    /\ loc' = [loc EXCEPT
                 ![w].missing = JiraValidate(loc[w].asked, client_ok, answer),
                 ![w].failed = platform_call_failed(loc[w].asked, client_ok,
                                                    answer)]
    /\ pc' = [pc EXCEPT ![w] = "v_mark"]
    /\ calls' = calls + 1
    /\ UNCHANGED <<now, lock, config, records, attachments, nextUuid, job,
                   started, result, runs, ticks, lastRun, apart>>

(* A marking step that also stamps runtime_state.last_validate_at         *)
ValidateMarkStamped(w) ==
    /\ pc[w] = "v_mark"
    /\ records' = mark_deleted(records, job[w].config_uuid, loc[w].missing)
    /\ config' = [config EXCEPT
                    ![job[w].config_uuid].value.runtime_state.last_validate_at =
                        IsoFormat(now)]
    /\ Finish(w, [NoResult EXCEPT
                     !.status = "returned", !.success = TRUE,
                     !.records_validated = Cardinality(loc[w].asked),
                     !.records_marked_deleted = Cardinality(loc[w].missing)])
    /\ UNCHANGED <<now, lock, attachments, nextUuid, job, calls, runs,
                   ticks, lastRun, apart>>

(* Lines 699-726                                                           *)
ValidateMark(w) ==
    /\ pc[w] = "v_mark"
    /\ records' = mark_deleted(records, job[w].config_uuid, loc[w].missing)
    /\ Finish(w, [NoResult EXCEPT
                     !.status = "returned", !.success = TRUE,
                     !.records_validated = Cardinality(loc[w].asked),
                     !.records_marked_deleted = Cardinality(loc[w].missing)])
    /\ UNCHANGED <<now, lock, config, attachments, nextUuid, job, calls, runs,
                   ticks, lastRun, apart>>

(* Records stored when the validate jobs start: in or out of the range     *)
(* T0 - 5 days .. T0 - 2 days, tombstoned or not                           *)
ValidateSeeds ==
    {[StoredRecord(t) EXCEPT !.is_deleted = d] :
        t \in {T0 - 6 * Day, T0 - 5 * Day, T0 - 2 * Day}, d \in BOOLEAN}

InitValidate ==
    /\ now = T0
    /\ lock = [n \in LockNames |-> 0]
    /\ config = [c \in Configs |->
                   CollectorConfig(c, "1m", _default_runtime_state)]
    /\ \E a \in ValidateSeeds, b \in ValidateSeeds \cup {NoRec} :
          records = [k \in RecKeys |->
                       IF k = <<"c1", "A">> THEN a
                       ELSE IF k = <<"c1", "B">> THEN b
                       ELSE IF k = <<"c2", "A">>
                       THEN StoredRecord(T0 - 3 * Day)
                       ELSE NoRec]
    /\ attachments = [k \in RecKeys |-> {}]
    /\ nextUuid = 1
    /\ pc = [w \in Workers |-> "idle"]
    /\ job = [w \in Workers |-> NoJob]
    /\ started = [w \in Workers |-> None]
    /\ loc = [w \in Workers |-> NoLoc]
    /\ result = [w \in Workers |-> NoResult]
    /\ calls = 0
    /\ runs = 0
    /\ ticks = 0
    /\ lastRun = [c \in Configs |-> NoLastRun]
    /\ sync = NoSync
    /\ req = [cl \in Clients |-> NoReq]
    /\ accepted = [c \in Configs |-> 0]
    /\ kills = 0

StepsValidate(W) ==
    \/ \E w \in W, c \in ConfigIds, rng \in Ranges :
          DeliverValidate(w, c, rng)
    \/ \E w \in W : ValidateLoad(w)
    \/ \E w \in W, client_ok \in BOOLEAN, answer \in [Sids -> Answers] :
          ValidateProvider(w, client_ok, answer)
    \/ \E w \in W : ValidateMark(w)

(* One validate job at a time                                              *)
NextValidate == StepsValidate({1})

SpecValidate == InitValidate /\ [][NextValidate]_vars

(* Validate jobs delivered to two worker slots                             *)
NextValidateOverlap == StepsValidate(Workers)

SpecValidateOverlap == InitValidate /\ [][NextValidateOverlap]_vars

-----------------------------------------------------------------------------
(* PUT/PATCH on a config: CollectorConfigViewSet (UpdateModelMixin) and    *)
(* CollectorConfigSerializer.update                                        *)

(* serializers.py lines 55-59: the stored document overlaid with the       *)
(* incoming keys, runtime_state taken from the stored document             *)
merge_value(current, incoming) ==
    [initial_range |-> incoming.initial_range,
     retention_days |-> incoming.retention_days,
     auth |-> incoming.auth,
     runtime_state |-> current.runtime_state]

(* A check that lets every version through                                 *)
version_mismatch_never(version_sent, instance) == FALSE

(* serializers.py lines 49-50                                              *)
version_mismatch(version_sent, instance) ==
    version_sent # None /\ version_sent # instance.version

(* serializers.py lines 54-76: the instance after setattr and version += 1 *)
updated_instance(instance, data) ==
    [instance EXCEPT !.key = data.key,
                     !.is_enabled = data.is_enabled,
                     !.value = merge_value(instance.value, data.value),
                     !.version = @ + 1]

(* The view's get_object() and the serializer's is_valid(): the row is     *)
(* read without a lock and kept in memory as serializer.instance.          *)
UpdateGet(cl, c, version_sent, data) ==
    /\ req[cl].phase # "loaded"
    /\ req[cl].n < MaxUpdates
    /\ req' = [req EXCEPT ![cl] =
                  [phase |-> "loaded", config_uuid |-> c,
                   instance |-> config[c], version_sent |-> version_sent,
                   data |-> data, status |-> "", n |-> req[cl].n + 1]]
    /\ UNCHANGED <<now, lock, config, records, attachments, nextUuid, pc, job,
                   started, loc, result, calls, runs, ticks, lastRun, sync,
                   accepted, kills>>

(* perform_update: serializer.save() calls update(instance, validated):    *)
(* Conflict on a version mismatch, else instance.save() writes the row.    *)
UpdateSave(cl) ==
    /\ req[cl].phase = "loaded"
    /\ LET c == req[cl].config_uuid
           instance == req[cl].instance
       IN  IF version_mismatch(req[cl].version_sent, instance)
           THEN /\ req' = [req EXCEPT ![cl].phase = "done",
                                      ![cl].status = "conflict"]
                /\ UNCHANGED <<config, accepted>>
           ELSE /\ config' = [config EXCEPT ![c] =
                                updated_instance(instance, req[cl].data)]
                /\ accepted' = [accepted EXCEPT ![c] = @ + 1]
                /\ req' = [req EXCEPT ![cl].phase = "done",
                                      ![cl].status = "ok"]
    /\ UNCHANGED <<now, lock, records, attachments, nextUuid, pc, job,
                   started, loc, result, calls, runs, ticks, lastRun, sync, kills>>

StepsUpdate(Cl) ==
    \/ \E cl \in Cl, c \in Configs, v \in VersionsSent, data \in UpdateBodies :
          UpdateGet(cl, c, v, data)
    \/ \E cl \in Cl : UpdateSave(cl)

(* One client: every request is finished before the next one is read       *)
NextUpdate == StepsUpdate({1})

SpecUpdate == Init /\ [][NextUpdate]_vars

(* Two clients whose requests are processed at the same time               *)
NextUpdateRace == StepsUpdate(Clients)

SpecUpdateRace == Init /\ [][NextUpdateRace]_vars

-----------------------------------------------------------------------------
(* The config row as the jobs and the update endpoint share it: collect    *)
(* and cleanup jobs of config c1 on one worker slot, update requests of    *)
(* one client in between.  Each of them reads the row, keeps it in memory  *)
(* and writes it back later.                                               *)

(* The runtime_state two earlier collect runs have left                     *)
CollectedRuntime ==
    commit_runtime_state(
        commit_runtime_state(_default_runtime_state, T0 - 3 * Day), T0 - Day)

InitShared ==
    /\ now = T0
    /\ lock = [n \in LockNames |-> 0]
    /\ \E rt \in {_default_runtime_state, CollectedRuntime} :
          config = [c \in Configs |->
                      CollectorConfig(c, "1m",
                                      IF c = "c1" THEN rt
                                      ELSE _default_runtime_state)]
    /\ records = [k \in RecKeys |-> NoRec]
    /\ attachments = [k \in RecKeys |-> {}]
    /\ nextUuid = 1
    /\ pc = [w \in Workers |-> "idle"]
    /\ job = [w \in Workers |-> NoJob]
    /\ started = [w \in Workers |-> None]
    /\ loc = [w \in Workers |-> NoLoc]
    /\ result = [w \in Workers |-> NoResult]
    /\ calls = 0
    /\ runs = 0
    /\ ticks = 0
    /\ lastRun = [c \in Configs |-> NoLastRun]
    /\ sync = NoSync
    /\ req = [cl \in Clients |-> NoReq]
    /\ accepted = [c \in Configs |-> 0]
    /\ kills = 0

NextShared ==
    \/ \E d \in TickSteps : Tick(d)
    \/ \E w \in {1} : HardTimeout(w)
    \/ \E w \in {1}, kind \in Kinds,
          rng \in {<<PyNone, PyNone>>,
                   <<IsoFormat(T0 - 5 * Day), IsoFormat(T0 - 2 * Day)>>} :
          Deliver(w, kind, "c1", rng)
    \/ \E w \in {1} : CheckLock(w)
    \/ \E w \in {1} : AcquireLock(w)
    \/ \E w \in {1} : ReleaseLock(w)
    \/ \E w \in {1} : CollectLoad(w)
    \/ \E w \in {1},
          items \in {<<>>, <<_issue_raw_to_item("A", "r2")>>} :
          CollectFetch(w, items)
    \/ \E w \in {1} : CollectPersist(w)
    \/ \E w \in {1} : CollectSync(w, {1})
    \/ \E w \in {1}, j \in 1..(MaxItems + 1) : CollectSyncRaise(w, {1}, j)
    \/ \E w \in {1} : CleanupLoad(w)
    \/ \E w \in {1} : CleanupTxn(w)
    \/ \E v \in {None, 0}, data \in UpdateBodies :
          UpdateGet(1, "c1", v, data)
    \/ UpdateSave(1)

SpecShared == InitShared /\ [][NextShared]_vars

-----------------------------------------------------------------------------
(* Tombstoned records under later jobs: the records of InitValidate,       *)
(* tombstoned or not, and collect, cleanup and validate jobs of config c1  *)
(* on one worker slot.                                                     *)

NextTombstone ==
    \/ \E d \in TickSteps : Tick(d)
    \/ HardTimeout(1)
    \/ \E kind \in Kinds : Deliver(1, kind, "c1", <<PyNone, PyNone>>)
    \/ CheckLock(1)
    \/ AcquireLock(1)
    \/ ReleaseLock(1)
    \/ CollectLoad(1)
    \/ \E items \in {<<_issue_raw_to_item("A", "r2")>>,
                     <<_issue_raw_to_item("A", "r1"),
                       _issue_raw_to_item("B", "r2")>>} :
          CollectFetch(1, items)
    \/ CollectPersist(1)
    \/ CollectSync(1, {1})
    \/ CleanupLoad(1)
    \/ CleanupTxn(1)
    \/ DeliverValidate(1, "c1", <<IsoFormat(T0 - 5 * Day),
                                  IsoFormat(T0 - 2 * Day)>>)
    \/ ValidateLoad(1)
    \/ \E client_ok \in BOOLEAN, answer \in [Sids -> Answers] :
          ValidateProvider(1, client_ok, answer)
    \/ ValidateMark(1)

SpecTombstone == InitValidate /\ [][NextTombstone]_vars

-----------------------------------------------------------------------------
(* _sync_attachments_for_record on its own: one record, any stored rows,   *)
(* any reported list, any download outcomes                                *)

InitSync ==
    /\ now = T0
    /\ lock = [n \in LockNames |-> 0]
    /\ config = [c \in Configs |->
                   CollectorConfig(c, "1m", _default_runtime_state)]
    /\ records = [k \in RecKeys |->
                    IF k = SyncKey
                    THEN new_record(Item("A", "r1", "f1", "h1", 1), T0)
                    ELSE NoRec]
    /\ \E rows \in SUBSET StoredRows :
          attachments = [k \in RecKeys |-> IF k = SyncKey THEN rows ELSE {}]
    /\ nextUuid = Cardinality(StoredRows) + 1
    /\ pc = [w \in Workers |-> "idle"]
    /\ job = [w \in Workers |-> NoJob]
    /\ started = [w \in Workers |-> None]
    /\ loc = [w \in Workers |-> NoLoc]
    /\ result = [w \in Workers |-> NoResult]
    /\ calls = 0
    /\ runs = 0
    /\ ticks = 0
    /\ lastRun = [c \in Configs |-> NoLastRun]
    /\ sync = NoSync
    /\ req = [cl \in Clients |-> NoReq]
    /\ accepted = [c \in Configs |-> 0]
    /\ kills = 0

(* Line 47: provider.fetch_attachments returns att_list; ok holds the      *)
(* positions whose download and file write will succeed (lines 66-108).    *)
SyncCall(att_list, ok) ==
    /\ sync.phase # "called"
    /\ sync.passes < MaxSyncs
    /\ ok \subseteq 1..Len(att_list)
    /\ sync' = [sync EXCEPT !.phase = "called", !.att_list = att_list,
                            !.ok = ok, !.before = attachments[SyncKey]]
    /\ UNCHANGED <<now, lock, config, records, attachments, nextUuid, pc, job,
                   started, loc, result, calls, runs, ticks, lastRun, web>>

(* Lines 46-53: provider.fetch_attachments raises; (0, 0) is returned      *)
SyncFetchRaise ==
    /\ sync.phase # "called"
    /\ sync.passes < MaxSyncs
    /\ sync' = [sync EXCEPT !.phase = "raised", !.att_list = <<>>, !.ok = {},
                            !.before = attachments[SyncKey],
                            !.synced = 0, !.removed = 0,
                            !.passes = @ + 1]
    /\ UNCHANGED <<now, lock, config, records, attachments, nextUuid, pc, job,
                   started, loc, result, calls, runs, ticks, lastRun, web>>

(* Lines 55-170                                                            *)
SyncReturn ==
    /\ sync.phase = "called"
    /\ LET out == _sync_attachments_for_record(attachments[SyncKey], nextUuid,
                                               sync.att_list, sync.ok)
       IN  /\ attachments' = [attachments EXCEPT ![SyncKey] = out.rows]
           /\ nextUuid' = out.next
           /\ sync' = [sync EXCEPT !.phase = "done", !.synced = out.synced,
                                   !.removed = out.removed, !.passes = @ + 1]
    /\ UNCHANGED <<now, lock, config, records, pc, job, started, loc, result,
                   calls, runs, ticks, lastRun, web>>

NextSync ==
    \/ \E att_list \in AttLists, ok \in SUBSET (1..MaxAtts) : SyncCall(att_list, ok)
    \/ SyncFetchRaise
    \/ SyncReturn

SpecSync == InitSync /\ [][NextSync]_vars

-----------------------------------------------------------------------------
(* Properties                                                              *)

HasRange(j) == Truthy(j.start_time) /\ Truthy(j.end_time)

SameLock(w1, w2) ==
    job[w1].kind = job[w2].kind /\ job[w1].config_uuid = job[w2].config_uuid

(* C1: for every config, at most one run_collect execution and at most one *)
(* run_cleanup execution is inside the job body at any time, given the     *)
(* 3600 s expiry of the lock entry and the release each run performs.      *)
C1_MutualExclusion ==
    \A w1, w2 \in Workers :
        (w1 # w2 /\ InBody(w1) /\ InBody(w2)) => ~SameLock(w1, w2)

(* C2: a run_collect invoked while the lock of (collect, config) is held   *)
(* returns at once with success = false and status "skipped", calls no     *)
(* provider, writes no record, attachment or config, and leaves the lock   *)
(* entry in place.                                                         *)
C2_SkipWhenLocked ==
    [][\A w \in Workers :
          ( /\ pc[w] \in {"check", "acquire"}
            /\ job[w].kind = "collect"
            /\ lock[<<"collect", job[w].config_uuid>>] > now
            /\ pc'[w] # pc[w]
            /\ result'[w].status # "killed" )
          => /\ pc'[w] = "idle"
             /\ result'[w].status = "skipped"
             /\ ~result'[w].success
             /\ calls' = calls
             /\ records' = records
             /\ attachments' = attachments
             /\ config' = config
             /\ lock' = lock]_vars

(* C2 witness: a collect delivery was skipped while another execution for  *)
(* the same config is inside the body.                                     *)
C2_Witness ==
    \E w, v \in Workers :
        /\ w # v
        /\ pc[w] = "idle"
        /\ job[w].kind = "collect"
        /\ result[w].status = "skipped"
        /\ InBody(v)
        /\ SameLock(w, v)

(* The change of one counter over one iteration of the persist loop        *)
Delta(pre, post) ==
    <<post.n.records_created - pre.n.records_created,
      post.n.records_updated - pre.n.records_updated,
      post.n.records_skipped_no_sid - pre.n.records_skipped_no_sid,
      post.n.records_skipped_unchanged - pre.n.records_skipped_unchanged>>

OthersKept(pre, post, k) ==
    \A j \in RecKeys \ {k} : post.db[j] = pre.db[j]

(* What the iteration over item made of the table pre, read off the rows   *)
OneOutcome(pre, post, c, item, t) ==
    LET sid == item.source_unique_id
        k == <<c, sid>>
    IN  IF sid = ""
        THEN post.db = pre.db /\ Delta(pre, post) = <<0, 0, 1, 0>>
        ELSE LET old == pre.db[k]
                 new == post.db[k]
             IN  /\ OthersKept(pre, post, k)
                 /\ new.exists
                 /\ new.last_collected_at = t
                 /\ IF ~old.exists
                    THEN /\ new.raw_data = item.raw_data
                         /\ new.filter_metadata = item.filter_metadata
                         /\ new.data_hash = item.data_hash
                         /\ new.source_created_at = item.source_created_at
                         /\ new.source_updated_at = item.source_updated_at
                         /\ new.first_collected_at = t
                         /\ Delta(pre, post) = <<1, 0, 0, 0>>
                    ELSE IF old.data_hash # item.data_hash
                    THEN /\ new.raw_data = item.raw_data
                         /\ new.filter_metadata = item.filter_metadata
                         /\ new.data_hash = item.data_hash
                         /\ new.source_created_at = item.source_created_at
                         /\ new.source_updated_at = item.source_updated_at
                         /\ new.first_collected_at = old.first_collected_at
                         /\ Delta(pre, post) = <<0, 1, 0, 0>>
                    ELSE /\ new = [old EXCEPT !.last_collected_at = t]
                         /\ Delta(pre, post) = <<0, 0, 0, 1>>

(* C3: every item of the fetched list has exactly one of four outcomes:    *)
(* no source_unique_id (counted, nothing written); a new record with       *)
(* first_collected_at = last_collected_at = now; a record whose hash       *)
(* differs (content fields replaced, last_collected_at = now); a record    *)
(* with the same hash (only last_collected_at = now).  The four counters   *)
(* add up to the number of items.                                          *)
C3_PerItemOutcome ==
    [][\A w \in Workers :
          (pc[w] = "persist" /\ pc'[w] = "sync")
          => LET c == job[w].config_uuid
                 items == loc[w].items
                 t == loc[w].now
                 S(i) == persist_items(records, c, SubSeq(items, 1, i), t)
                 n == loc'[w].n
             IN  /\ records' = S(Len(items)).db
                 /\ \A i \in 1..Len(items) :
                        OneOutcome(S(i - 1), S(i), c, items[i], t)
                 /\ n = S(Len(items)).n
                 /\ n.records_created + n.records_updated
                      + n.records_skipped_no_sid
                      + n.records_skipped_unchanged = Len(items)]_vars

(* C3 witness: a pass that updated one record and left another unchanged   *)
C3_Witness ==
    \E w \in Workers :
        /\ pc[w] = "sync"
        /\ loc[w].n.records_updated >= 1
        /\ loc[w].n.records_skipped_unchanged >= 1

(* The pass of w repeats the last committed pass of its config: the same   *)
(* list, on the table that pass left                                       *)
RepeatsLastRun(w) ==
    /\ pc[w] = "persist"
    /\ lastRun[job[w].config_uuid].valid
    /\ lastRun[job[w].config_uuid].items = loc[w].items
    /\ lastRun[job[w].config_uuid].db = records

(* What C4 says of the second of two identical passes                      *)
SecondRunQuiet(w) ==
    LET c == job[w].config_uuid
        items == loc[w].items
    IN  /\ loc'[w].n.records_created = 0
        /\ loc'[w].n.records_updated = 0
        /\ \A k \in RecKeys :
              /\ records'[k].exists = records[k].exists
              /\ records'[k].raw_data = records[k].raw_data
              /\ records'[k].data_hash = records[k].data_hash
        /\ \A i \in 1..Len(items) :
              items[i].source_unique_id # ""
              => records'[<<c, items[i].source_unique_id>>].last_collected_at
                   = loc[w].now

(* No source_unique_id occurs in the list with two different hashes        *)
OneHashPerSid(items) ==
    \A i, j \in 1..Len(items) :
        items[i].source_unique_id = items[j].source_unique_id
        => items[i].data_hash = items[j].data_hash

(* C4 as stated: two runs over the same provider list with no other write  *)
(* between them; the second reports no record created or updated, leaves   *)
(* raw_data and data_hash of every record as they were and stamps every    *)
(* returned record with its own now.                                       *)
C4_SecondRunIdempotent ==
    [][\A w \in Workers :
          (RepeatsLastRun(w) /\ pc'[w] = "sync") => SecondRunQuiet(w)]_vars

(* C4 with the lists restricted to those in which no source_unique_id      *)
(* occurs with two different data_hash values.                             *)
C4_SecondRunIdempotentOneHash ==
    [][\A w \in Workers :
          (RepeatsLastRun(w) /\ OneHashPerSid(loc[w].items) /\ pc'[w] = "sync")
          => SecondRunQuiet(w)]_vars

(* C4 witness: a second pass over the same non-empty list was committed    *)
C4_Witness ==
    \E w \in Workers :
        /\ pc[w] = "sync"
        /\ lastRun[job[w].config_uuid].repeated
        /\ OneHashPerSid(lastRun[job[w].config_uuid].items)
        /\ \E i \in 1..Len(lastRun[job[w].config_uuid].items) :
              lastRun[job[w].config_uuid].items[i].source_unique_id # ""

(* w is a collect run without explicit range that has its window           *)
AutoWindow(w) ==
    /\ pc[w] = "fetch"
    /\ job[w].kind = "collect"
    /\ ~Truthy(job[w].start_time)
    /\ ~Truthy(job[w].end_time)

(* C5: without explicit range and with first_collect_at set, the window    *)
(* ends at now and starts at min(last_success_collect_at, now - 1 day), or *)
(* at now - 30 days when there is no last_success_collect_at; so the start *)
(* is never later than now - 1 day and never earlier than one day before   *)
(* the stored last_success_collect_at.                                     *)
C5_IncrementalWindow ==
    \A w \in Workers :
        (AutoWindow(w) /\ loc[w].value.runtime_state.first_collect_at # PyNone)
        => LET t == loc[w].now
               last_ok == loc[w].value.runtime_state.last_success_collect_at
           IN  /\ loc[w].end_time = t
               /\ loc[w].start_time <= t - Day
               /\ IF last_ok = PyNone
                  THEN loc[w].start_time = t - 30 * Day
                  ELSE /\ loc[w].start_time =
                            (IF last_ok.t < t - Day THEN last_ok.t ELSE t - Day)
                       /\ loc[w].start_time >= last_ok.t - Day

(* C5 witness: an incremental run less than a day after the last success   *)
C5_Witness ==
    \E w \in Workers :
        /\ AutoWindow(w)
        /\ loc[w].value.runtime_state.last_success_collect_at # PyNone
        /\ loc[w].value.runtime_state.last_success_collect_at.t > loc[w].now - Day

(* C6: without explicit range and with first_collect_at null, the window   *)
(* is [now - 90 days, now] when initial_range is "3m" and                  *)
(* [now - 30 days, now] for any other initial_range.                       *)
C6_FirstRunWindow ==
    \A w \in Workers :
        (AutoWindow(w) /\ loc[w].value.runtime_state.first_collect_at = PyNone)
        => /\ loc[w].end_time = loc[w].now
           /\ loc[w].start_time =
                loc[w].now - (IF loc[w].value.initial_range = "3m" THEN 90
                              ELSE 30) * Day

(* C6 witness: a first run of a config whose initial_range is "3m"         *)
C6_Witness ==
    \E w \in Workers :
        /\ AutoWindow(w)
        /\ loc[w].value.runtime_state.first_collect_at = PyNone
        /\ loc[w].value.initial_range = "3m"

(* C7: when provider.collect raises, the run ends unsuccessfully and no    *)
(* record, no attachment and no field of the config (runtime_state         *)
(* included) is changed.                                                   *)
C7_FetchFailureWritesNothing ==
    [][\A w \in Workers :
          ( /\ pc[w] = "fetch"
            /\ pc'[w] = "finally"
            /\ result'[w].status = "raised" )
          => /\ ~result'[w].success
             /\ records' = records
             /\ attachments' = attachments
             /\ config' = config]_vars

(* C7 witness: provider.collect raised in a run of a config that has a     *)
(* stored watermark and a stored record                                    *)
C7_Witness ==
    \E w \in Workers :
        /\ pc[w] = "finally"
        /\ result[w].status = "raised"
        /\ result[w].error = "provider.collect"
        /\ config[job[w].config_uuid].value.runtime_state.last_success_collect_at
             # PyNone
        /\ \E k \in RecKeys : k[1] = job[w].config_uuid /\ records[k].exists

(* C8: the writes of the persist pass and the runtime_state write are one  *)
(* unit: after the pass either every item with an id has its record        *)
(* stamped with now and the watermarks are set to now, or the record table *)
(* and the config are exactly as before the pass.                          *)
C8_PersistAtomic ==
    [][\A w \in Workers :
          (pc[w] = "persist" /\ pc'[w] # "persist" /\ job[w].config_uuid \in Configs)
          => LET c == job[w].config_uuid
                 items == loc[w].items
                 rt == config'[c].value.runtime_state
             IN  \/ /\ \A i \in 1..Len(items) :
                          items[i].source_unique_id # ""
                          => /\ records'[<<c, items[i].source_unique_id>>].exists
                             /\ records'[<<c, items[i].source_unique_id>>]
                                  .last_collected_at = loc[w].now
                    /\ rt.last_success_collect_at = IsoFormat(loc[w].now)
                    /\ rt.last_collect_start_at = IsoFormat(loc[w].now)
                    /\ rt.last_collect_end_at = IsoFormat(loc[w].now)
                    /\ rt.first_collect_at # PyNone
                 \/ /\ records' = records
                    /\ config' = config]_vars

(* C8 witness: the pass raised after it had gone through an item with an   *)
(* id that was not stored before                                           *)
C8_Witness ==
    \E w \in Workers :
        /\ pc[w] = "finally"
        /\ result[w].status = "raised"
        /\ result[w].error = "database"
        /\ result[w].failed_at >= 1
        /\ \E k \in RecKeys : k[1] = job[w].config_uuid /\ ~records[k].exists

(* C9: a run_collect that returns success = true has set                   *)
(* last_collect_start_at, last_collect_end_at and last_success_collect_at  *)
(* of the config to its now, and first_collect_at is not null; a run that  *)
(* fetched no items included.                                              *)
C9_SuccessCommitsRuntime ==
    \A w \in Workers :
        ( /\ pc[w] = "finally"
          /\ job[w].kind = "collect"
          /\ result[w].success )
        => LET rt == config[job[w].config_uuid].value.runtime_state
           IN  /\ rt.last_collect_start_at = IsoFormat(result[w].now)
               /\ rt.last_collect_end_at = IsoFormat(result[w].now)
               /\ rt.last_success_collect_at = IsoFormat(result[w].now)
               /\ rt.first_collect_at # PyNone

(* C10: a run_collect for a config whose platform has no registered        *)
(* provider returns success = true with records_created = 0 and            *)
(* records_updated = 0, calls no provider and changes no record and no     *)
(* attachment.                                                             *)
C10_UnknownPlatform ==
    [][\A w \in Workers :
          ( /\ pc[w] = "fetch"
            /\ config[job[w].config_uuid].platform \notin {"jira", "feishu"}
            /\ pc'[w] # pc[w]
            /\ result'[w].status # "killed" )
          => /\ pc'[w] = "finally"
             /\ result'[w].status = "returned"
             /\ result'[w].success
             /\ result'[w].records_created = 0
             /\ result'[w].records_updated = 0
             /\ calls' = calls
             /\ records' = records
             /\ attachments' = attachments]_vars

(* C10 witness: such a run returned while records of another platform are  *)
(* stored                                                                  *)
C10_Witness ==
    \E w \in Workers :
        /\ pc[w] = "finally"
        /\ job[w].kind = "collect"
        /\ job[w].config_uuid \in Configs
        /\ config[job[w].config_uuid].platform \notin {"jira", "feishu"}
        /\ result[w].success
        /\ \E k \in RecKeys : records[k].exists

(* The ids of rows that carry one                                          *)
StoredIds(rows) == {r.source_file_id : r \in {x \in rows : x.source_file_id # NoneId}}

(* The reconciliation that just returned had every download succeed        *)
AllDownloaded ==
    sync.phase = "done" /\ sync.ok = 1..Len(sync.att_list)

(* With R the reported ids: the stored ids are R, an id stored before and  *)
(* reported keeps its row and uuid, a reported id not stored before has    *)
(* one row with a uuid no earlier row had.                                 *)
ConvergesTo(R) ==
    LET S == StoredIds(sync.before)
        after == attachments[SyncKey]
    IN  /\ StoredIds(after) = R
        /\ \A r \in sync.before :
              r.source_file_id \in S \cap R => r \in after
        /\ \A id \in R :
              Cardinality({r \in after : r.source_file_id = id}) = 1
        /\ \A r \in after :
              r.source_file_id \in R \ S
              => r.uuid \notin {x.uuid : x \in sync.before}

(* C11 as stated: when every download succeeds, after the reconciliation   *)
(* the stored non-null ids are exactly the reported non-null ids R: ids    *)
(* stored but not reported lose their row, ids reported but not stored get *)
(* a row with a fresh uuid, ids in both keep row and uuid.                 *)
C11_Convergence ==
    AllDownloaded
    => ConvergesTo({sync.att_list[i] : i \in {j \in 1..Len(sync.att_list) :
                                                sync.att_list[j] # NoneId}})

(* C11 with R the reported ids that are neither null nor the empty string  *)
C11_ConvergenceNonEmptyIds ==
    AllDownloaded
    => ConvergesTo({sync.att_list[i] : i \in {j \in 1..Len(sync.att_list) :
                                                /\ sync.att_list[j] # NoneId
                                                /\ sync.att_list[j] # ""}})

(* C11 witness: stored {f1, f3}, reported {f1, f2}, both downloaded        *)
C11_Witness ==
    /\ AllDownloaded
    /\ StoredIds(sync.before) = {"f1", "f3"}
    /\ {sync.att_list[i] : i \in 1..Len(sync.att_list)} = {"f1", "f2"}

(* C12: no reconciliation deletes a row whose source_file_id is null,      *)
(* whatever list the provider reports (an empty list and a list of null    *)
(* ids included).                                                          *)
C12_NullIdRowsKept ==
    sync.phase \in {"done", "raised"}
    => \A r \in sync.before :
          r.source_file_id = NoneId => r \in attachments[SyncKey]

(* C13: after run_cleanup at time now, with cutoff = now - retention_days  *)
(* for every configured retention_days >= 0 (180 days when the key is      *)
(* absent), a record of the config is gone if and only if its              *)
(* last_collected_at was strictly earlier than cutoff; the other records   *)
(* of the config and all records of other configs are kept, and            *)
(* records_deleted is the number of records removed.                       *)
C13_Retention ==
    [][\A w \in Workers :
          (pc[w] = "cl_txn" /\ pc'[w] = "finally")
          => LET c == job[w].config_uuid
                 rd == config[c].value.retention_days
                 cutoff == loc[w].now - (IF rd = None THEN 180 ELSE rd) * Day
                 old == {k \in RecKeys :
                           /\ k[1] = c
                           /\ records[k].exists
                           /\ records[k].last_collected_at # None
                           /\ records[k].last_collected_at < cutoff}
             IN  /\ \A k \in RecKeys :
                       records'[k] = IF k \in old THEN NoRec ELSE records[k]
                 /\ result'[w].success
                 /\ result'[w].records_deleted = Cardinality(old)]_vars

(* C14: run_validate passes to the provider exactly the source_unique_ids  *)
(* of the config's non-tombstoned records whose last_collected_at lies in  *)
(* the range, and when it completes the records whose is_deleted went from *)
(* false to true are exactly those whose id the provider returned as       *)
(* missing; nothing else of any record changes.                            *)
C14_ValidateMarksMissing ==
    [][\A w \in Workers :
          LET c == job[w].config_uuid
              st == ParseDatetime(job[w].start_time)
              et == ParseDatetime(job[w].end_time)
          IN  /\ (pc[w] = "v_provider" /\ pc'[w] = "v_mark")
                 => \A sid \in Sids :
                       sid \in loc[w].asked
                       <=> /\ records[<<c, sid>>].exists
                           /\ records[<<c, sid>>].is_deleted = FALSE
                           /\ st <= records[<<c, sid>>].last_collected_at
                           /\ records[<<c, sid>>].last_collected_at <= et
              /\ (pc[w] = "v_mark" /\ pc'[w] = "idle"
                    /\ result'[w].status = "returned")
                 => \A k \in RecKeys :
                       /\ (~records[k].is_deleted /\ records'[k].is_deleted)
                          <=> (k[1] = c /\ k[2] \in loc[w].missing)
                       /\ records'[k].is_deleted
                            = (records[k].is_deleted
                                 \/ (k[1] = c /\ k[2] \in loc[w].missing))
                       /\ [records'[k] EXCEPT !.is_deleted = FALSE]
                            = [records[k] EXCEPT !.is_deleted = FALSE]]_vars

(* C14 witness: a validation of two records ended with one of them marked  *)
C14_Witness ==
    \E w \in Workers :
        /\ pc[w] = "idle"
        /\ job[w].kind = "validate"
        /\ result[w].success
        /\ result[w].records_validated = 2
        /\ result[w].records_marked_deleted = 1

(* C15: when a call to the platform fails during validation (the client    *)
(* cannot be built, or the existence check of an id fails), run_validate   *)
(* marks no record as is_deleted.                                          *)
C15_ValidateFailsClosed ==
    [][\A w \in Workers :
          (pc[w] = "v_mark" /\ pc'[w] = "idle" /\ loc[w].failed)
          => \A k \in RecKeys : records'[k].is_deleted = records[k].is_deleted]_vars

(* C20: two run_validate executions for the same config never overlap      *)
C20_ValidateExclusive ==
    \A w1, w2 \in Workers :
        ( /\ w1 # w2
          /\ pc[w1] \in ValidatePcs
          /\ pc[w2] \in ValidatePcs )
        => job[w1].config_uuid # job[w2].config_uuid

(* C16: a config update that presents a version different from the stored  *)
(* version is rejected with a conflict and leaves key, value, is_enabled   *)
(* and version as they were; an update that presents the stored version is *)
(* applied and leaves version at the stored version plus one.              *)
C16_OptimisticLock ==
    [][\A cl \in Clients :
          (req[cl].phase = "loaded" /\ req'[cl].phase = "done")
          => LET c == req[cl].config_uuid
                 stored == config[c]
                 v == req[cl].version_sent
             IN  /\ (v # None /\ v # stored.version)
                    => /\ req'[cl].status = "conflict"
                       /\ config'[c].key = stored.key
                       /\ config'[c].value = stored.value
                       /\ config'[c].is_enabled = stored.is_enabled
                       /\ config'[c].version = stored.version
                 /\ (v = stored.version)
                    => /\ req'[cl].status = "ok"
                       /\ config'[c].version = stored.version + 1
                       /\ config'[c].key = req[cl].data.key
                       /\ config'[c].is_enabled = req[cl].data.is_enabled
                       /\ config'[c].value.initial_range
                            = req[cl].data.value.initial_range
                       /\ config'[c].value.runtime_state
                            = stored.value.runtime_state]_vars

(* C16 witness: after an applied update, a request that presented the      *)
(* version from before it was turned down                                  *)
C16_Witness ==
    \E cl \in Clients :
        /\ req[cl].phase = "done"
        /\ req[cl].status = "conflict"
        /\ accepted[req[cl].config_uuid] >= 1
        /\ req[cl].version_sent = config[req[cl].config_uuid].version - 1

(* C17: of two updates that read and present the same version at most one  *)
(* is accepted; in every reachable state the stored version is the initial *)
(* version (0) plus the number of accepted updates.                        *)
C17_VersionCountsAccepted ==
    \A c \in Configs : config[c].version = accepted[c]

(* C18: a run_collect whose config does not exist, or whose explicit       *)
(* start_time / end_time does not parse or has start_time >= end_time,     *)
(* returns success = false with an error, calls no provider and changes no *)
(* record, attachment or config (runtime_state included).                  *)
C18_RejectedInputWritesNothing ==
    [][\A w \in Workers :
          ( /\ pc[w] = "load"
            /\ pc'[w] # "load"
            /\ result'[w].status # "killed"
            /\ \/ job[w].config_uuid \notin Configs
               \/ /\ job[w].start_time.tag # "none"
                  /\ job[w].end_time.tag # "none"
                  /\ \/ job[w].start_time.tag # "iso"
                     \/ job[w].end_time.tag # "iso"
                     \/ job[w].start_time.t >= job[w].end_time.t )
          => /\ pc'[w] = "finally"
             /\ result'[w].status = "returned"
             /\ ~result'[w].success
             /\ result'[w].error # ""
             /\ calls' = calls
             /\ records' = records
             /\ attachments' = attachments
             /\ config' = config]_vars

(* No execution of the lock name n is in progress                          *)
NoneInProgress(n) ==
    \A w \in Workers : Live(w) => _build_task_lock_name(job[w]) # n

C21_HashChangesWithRawData ==
    [][\A k \in RecKeys :
          (records'[k].data_hash # records[k].data_hash)
          <=> (records'[k].raw_data # records[k].raw_data)]_vars

(* C21 witness: a pass replaced the payload of a stored record and created *)
(* no record                                                               *)
C21_Witness ==
    \E w \in Workers :
        /\ pc[w] = "sync"
        /\ loc[w].n.records_updated >= 1
        /\ loc[w].n.records_created = 0
        /\ \E k \in RecKeys : records[k].exists /\ records[k].raw_data = "r2"

(* C22: whatever the interleaving of run_collect, run_cleanup and config   *)
(* updates, the step in which a job writes the config changes nothing but  *)
(* value.runtime_state: key, is_enabled, version and the other keys of     *)
(* value stay as the update endpoint last wrote them, also when an update  *)
(* was accepted while the job was running.                                 *)
C22_CommitWritesRuntimeStateOnly ==
    [][\A w \in Workers :
          (pc[w] \in {"persist", "cl_txn"} /\ pc'[w] # pc[w])
          => \A c \in Configs :
                config'[c] = [config[c] EXCEPT !.value.runtime_state =
                                config'[c].value.runtime_state]]_vars

(* C24: once runtime_state.first_collect_at of a config is not null, no    *)
(* step of run_collect, run_cleanup or a config update changes it.         *)
C24_FirstCollectAtSetOnce ==
    [][\A c \in Configs :
          config[c].value.runtime_state.first_collect_at # PyNone
          => config'[c].value.runtime_state.first_collect_at
               = config[c].value.runtime_state.first_collect_at]_vars

(* C27: runtime_state.last_success_collect_at of a config never decreases  *)
(* (and is never reset to null) in a step of run_collect, run_cleanup or a *)
(* config update.                                                          *)
C27_WatermarkNeverDecreases ==
    [][\A c \in Configs :
          LET old == config[c].value.runtime_state.last_success_collect_at
              new == config'[c].value.runtime_state.last_success_collect_at
          IN  old # PyNone => (new # PyNone /\ new.t >= old.t)]_vars

(* C23: run_collect advances the watermark only after the attachment       *)
(* reconciliation and the backfill scan: when the run fails in one of the  *)
(* two, last_success_collect_at of its config is still the value the run   *)
(* read when it loaded the config.                                         *)
C23_CommitAfterReconciliation ==
    [][\A w \in Workers :
          ( /\ pc[w] = "sync"
            /\ pc'[w] = "finally"
            /\ result'[w].status = "raised" )
          => config'[job[w].config_uuid].value.runtime_state
                 .last_success_collect_at
               = loc[w].value.runtime_state.last_success_collect_at]_vars

(* The positions of the reported list whose download or file write failed  *)
FailedDownloads == (1..Len(sync.att_list)) \ sync.ok

(* C25: when the download (or the file write) of a reported attachment     *)
(* fails, only that attachment is skipped: every other reported attachment *)
(* is processed (it is counted, and one that carries an id has its row),   *)
(* a row stored before under the source_file_id of the failed attachment   *)
(* is still there with its uuid, and the reconciliation returns.           *)
C25_FailedDownloadSkipsOnlyThat ==
    (sync.phase = "done" /\ FailedDownloads # {})
    => /\ sync.synced = Cardinality((1..Len(sync.att_list)) \cap sync.ok)
       /\ \A j \in (1..Len(sync.att_list)) \cap sync.ok :
             sync.att_list[j] \notin {NoneId, ""}
             => \E r \in attachments[SyncKey] :
                   r.source_file_id = sync.att_list[j]
       /\ \A i \in FailedDownloads :
             \A r \in sync.before :
                r.source_file_id = sync.att_list[i]
                => r \in attachments[SyncKey]

(* C26: the backfill pass reconciles exactly the records of the config     *)
(* that list more attachments than they have rows and were not reconciled  *)
(* earlier in the run; and a record whose reconciliation had every         *)
(* download succeed is not one of them in the next run when nothing        *)
(* changed upstream: it has a row for each attachment it lists.            *)
C26_BackfillFixedPoint ==
    AllDownloaded => ~needs_backfill(attachments[SyncKey], sync.att_list)

(* The closed intervals of S cover every instant from a to b               *)
Covered(a, b, S) ==
    a < b => /\ \E v \in S : v[1] <= a /\ a < v[2]
             /\ \A u \in S : (a <= u[2] /\ u[2] < b)
                             => \E v \in S : v[1] <= u[2] /\ u[2] < v[2]

(* C28, for the first committed run of a config (the run found             *)
(* first_collect_at null, so its window is the only one passed to the      *)
(* provider so far): once it has advanced the watermark, every instant     *)
(* from the start of the first-run window (first_collect_at minus the      *)
(* initial range) to last_success_collect_at lies inside its window,       *)
(* whether the run was automatic or manual with an explicit range.         *)
C28_WatermarkCoversScanned ==
    \A w \in Workers :
        ( /\ pc[w] = "sync"
          /\ loc[w].value.runtime_state.first_collect_at = PyNone )
        => LET c == job[w].config_uuid
               rt == config[c].value.runtime_state
               days == IF config[c].value.initial_range = "3m"
                       THEN InitialRangeDays3m ELSE InitialRangeDays1m
           IN  Covered(rt.first_collect_at.t - days * Day,
                       rt.last_success_collect_at.t,
                       {<<loc[w].start_time, loc[w].end_time>>})

(* C29: run_collect and run_cleanup never change the is_deleted flag of a  *)
(* record, and no job sets it from true back to false: while a record      *)
(* exists, its flag changes only in the marking step of run_validate, and  *)
(* only from false to true; a tombstoned record that a later run_collect   *)
(* sights again and updates stays tombstoned until run_cleanup removes it. *)
C29_TombstoneKept ==
    [][\A k \in RecKeys :
          (records[k].exists /\ records'[k].exists
             /\ records'[k].is_deleted # records[k].is_deleted)
          => /\ ~records[k].is_deleted
             /\ \E w \in Workers : pc[w] = "v_mark" /\ pc'[w] = "idle"]_vars

(* A tombstoned record that a collect run has sighted again and updated    *)
C29_Witness ==
    \E w \in Workers, k \in RecKeys :
        /\ pc[w] = "sync"
        /\ loc[w].n.records_updated >= 1
        /\ records[k].exists
        /\ records[k].is_deleted
        /\ records[k].raw_data = "r2"
        /\ records[k].last_collected_at = loc[w].now

(* C30: run_validate changes nothing except is_deleted flags of records of *)
(* its config: in every step taken while a validate job is in progress, no *)
(* record or attachment row appears or disappears, every record keeps all  *)
(* of its other fields, a record whose flag changes belongs to the job's   *)
(* config, and the config documents stay as they were, runtime_state and   *)
(* its last_validate_at included.                                          *)
C30_ValidateChangesFlagsOnly ==
    [][\A w \in Workers :
          pc[w] \in ValidatePcs
          => /\ config' = config
             /\ attachments' = attachments
             /\ nextUuid' = nextUuid
             /\ \A k \in RecKeys :
                   /\ [records'[k] EXCEPT !.is_deleted = records[k].is_deleted]
                        = records[k]
                   /\ records'[k] # records[k]
                        => \E v \in Workers :
                              /\ pc[v] = "v_mark" /\ pc'[v] = "idle"
                              /\ k[1] = job[v].config_uuid]_vars

(* A validate job that has marked a record after a collect run committed   *)
(* its runtime_state: last_validate_at is still unset                      *)
C30_Witness ==
    \E w \in Workers :
        /\ pc[w] = "idle"
        /\ result[w].status = "returned"
        /\ result[w].records_marked_deleted >= 1
        /\ \E k \in RecKeys : k[1] = "c1" /\ records[k].is_deleted
        /\ config["c1"].value.runtime_state.first_collect_at # PyNone
        /\ config["c1"].value.runtime_state.last_validate_at = PyNone

====
